---- MODULE Spec2Model ----
(***************************************************************************)
(* Model of the abstract lens interfaces of caustic(s):                    *)
(*   src/caustic/lenses/base.py            ThickLens, ThinLens             *)
(*   src/src/caustics/lenses/external_shear.py   ExternalShear             *)
(*                                                                         *)
(* A state is one lens object with its cosmology (as constructed) together *)
(* with the record of the last method call made on it: the arguments, the  *)
(* outcome (return or exception), the returned value, the trace of the     *)
(* calls and warnings the method produced, and the lens, cosmology and     *)
(* override container as they are after the call.                          *)
(*                                                                         *)
(* Tensor values are exact rationals <<num, den>>; a coordinate tensor is  *)
(* a sequence of m values standing for a batch of shape (m, 1).            *)
(***************************************************************************)
EXTENDS Integers, Sequences, FiniteSets, TLC

(***************************************************************************)
(* Bounds of the model.                                                    *)
(***************************************************************************)
MaxCoord == 1      \* grid columns start at x + y <= MaxCoord [arcsec]
MaxLen == 2        \* a column holds 1 or MaxLen points
MaxShear == 1      \* shear components take the values 0/10 .. MaxShear/10

(***************************************************************************)
(* Exact rational arithmetic for tensor elements.                          *)
(***************************************************************************)
Abs(n) == IF n < 0 THEN -n ELSE n

RECURSIVE GCD(_, _)
GCD(a, b) == IF b = 0 THEN a ELSE GCD(b, a % b)

Sgn(n) == IF n < 0 THEN -1 ELSE IF n = 0 THEN 0 ELSE 1

\* <<n, d>> in lowest terms with d > 0; d = 0 stands for a non-finite value
Rat(n, d) ==
    IF d = 0 THEN <<Sgn(n), 0>>
    ELSE LET g == GCD(Abs(n), Abs(d))
             s == Sgn(d)
         IN  <<(s * n) \div g, (s * d) \div g>>

RI(n) == <<n, 1>>
RAdd(a, b) == Rat(a[1] * b[2] + b[1] * a[2], a[2] * b[2])
RSub(a, b) == Rat(a[1] * b[2] - b[1] * a[2], a[2] * b[2])
RMul(a, b) == Rat(a[1] * b[1], a[2] * b[2])
RDiv(a, b) == Rat(a[1] * b[2], a[2] * b[1])
RNeg(a) == <<-a[1], a[2]>>
RAbs(a) == <<Abs(a[1]), a[2]>>
RSq(a) == RMul(a, a)

(***************************************************************************)
(* Elementwise tensor operations (torch broadcasting of a scalar against a *)
(* batch is written with the S-suffixed operators).                        *)
(***************************************************************************)
TAdd(a, b) == [i \in DOMAIN a |-> RAdd(a[i], b[i])]
TSub(a, b) == [i \in DOMAIN a |-> RSub(a[i], b[i])]
TMul(a, b) == [i \in DOMAIN a |-> RMul(a[i], b[i])]
TSq(a) == [i \in DOMAIN a |-> RSq(a[i])]
TSubS(a, s) == [i \in DOMAIN a |-> RSub(a[i], s)]
TMulS(a, s) == [i \in DOMAIN a |-> RMul(a[i], s)]
SMulT(s, a) == [i \in DOMAIN a |-> RMul(s, a[i])]
TNeg(a) == [i \in DOMAIN a |-> RNeg(a[i])]
zeros_like(a) == [i \in DOMAIN a |-> RI(0)]

(***************************************************************************)
(* Constants imported by base.py (line 9).  Their values live in           *)
(* caustic/constants.py; they enter time_delay as non-zero scale factors.  *)
(***************************************************************************)
arcsec_to_rad == <<1, 5>>
c_Mpc_s == <<1, 3>>

(***************************************************************************)
(* Parameter containers.  A Packed override is None or a map from          *)
(* parameter names to values; an object's stored defaults are a map from   *)
(* its declared parameter names to values.                                 *)
(***************************************************************************)
NoParams == [is_none |-> TRUE, vals |-> [n \in {} |-> RI(0)]]
Packed(vals) == [is_none |-> FALSE, vals |-> vals]

\* a dynamic parameter is looked up by name in the override container if
\* one is given, else falls back to the stored default
Resolve(stored, params, name) ==
    IF ~params.is_none /\ name \in DOMAIN params.vals
    THEN params.vals[name]
    ELSE stored[name]

\* declaration order of a class's parameters: the base class's add_param
\* runs first in __init__, the subclass's parameters follow
ParamOrder(cls) ==
    CASE cls = "ExternalShear" -> <<"z_l", "x0", "y0", "gamma_1", "gamma_2">>
      [] cls = "ThinLens"      -> <<"z_l">>
      [] cls = "ThickShear"    -> <<"gamma_1", "gamma_2">>
      [] OTHER                 -> <<>>

\* Parametrized.unpack: the resolved values in declaration order
unpack(self, params) ==
    [i \in DOMAIN ParamOrder(self.cls) |->
        Resolve(self.stored, params, ParamOrder(self.cls)[i])]

(***************************************************************************)
(* Cosmology boundary (section 6 of the specification).  The distance      *)
(* calculation itself is an external collaborator; it is represented by a  *)
(* flat-space stand-in that depends on the redshifts and on the            *)
(* cosmology's dynamic parameter h0.                                       *)
(***************************************************************************)
angular_diameter_distance(cosmology, z, params) ==
    RMul(Resolve(cosmology.stored, params, "h0"), z)

angular_diameter_distance_z1z2(cosmology, z1, z2, params) ==
    RMul(Resolve(cosmology.stored, params, "h0"), RSub(z2, z1))

critical_surface_density(cosmology, z_l, z_s, params) ==
    RDiv(angular_diameter_distance(cosmology, z_s, params),
         RMul(angular_diameter_distance(cosmology, z_l, params),
              angular_diameter_distance_z1z2(cosmology, z_l, z_s, params)))

(***************************************************************************)
(* Call environment and return records.                                    *)
(*   env: the objects a call can reach (self, its cosmology, the override  *)
(*        container), the trace of calls so far and the warnings issued.   *)
(*   a return is an outcome ("ok" or the exception class), the exception   *)
(*   message, and the value: kind "none" (Python None), "tensor",          *)
(*   "pair" (tuple of two tensors) or "jacobian" (one 2x2 matrix a point). *)
(***************************************************************************)
\* requires_grad holds the gradient-tracking flag (Tensor.requires_grad) of
\* the tensors a call can touch: the caller's x and y, the copies
\* x_detached and y_detached that the autograd Jacobian binds to its local
\* names, and the Jacobian J it builds.
Untracked ==
    [x |-> FALSE, y |-> FALSE, x_detached |-> FALSE, y_detached |-> FALSE,
     J |-> FALSE]

Env(self, cosmology, params) ==
    [self |-> self, cosmology |-> cosmology, params |-> params,
     log |-> <<>>, warnings |-> <<>>, requires_grad |-> Untracked,
     received |-> <<>>]

\* the caller's tensors x and y come with their own tracking flags
Tracking(env, x_requires_grad, y_requires_grad) ==
    [env EXCEPT !.requires_grad.x = x_requires_grad,
                !.requires_grad.y = y_requires_grad]

\* to = from.detach(): a new tensor with the data of `from`, never tracking;
\* `from` is left as it was
detach(env, from, to) == [env EXCEPT !.requires_grad[to] = FALSE]

\* t.requires_grad_(): switches tracking on in place, on the tensor t itself
requires_grad_(env, t) == [env EXCEPT !.requires_grad[t] = TRUE]

Log(env, event) == [env EXCEPT !.log = Append(@, event)]

\* received lists, for the calls a thin lens makes on its cosmology and on
\* its primitives, what the callee was handed: the redshifts z and the
\* override container params
Received(env, callee, z, params) ==
    [env EXCEPT !.received = Append(@, [callee |-> callee, z |-> z,
                                        params |-> params])]

\* warnings.warn(msg): a warning of the default category is issued and the
\* call goes on
Warn(env, msg) ==
    [env EXCEPT !.log = Append(@, "warnings.warn"),
                !.warnings = Append(@, [category |-> "UserWarning", message |-> msg])]

Ok(env, kind, value) ==
    [env |-> env, outcome |-> "ok", msg |-> "", kind |-> kind, value |-> value]

Raise(env, exc, msg) ==
    [env |-> env, outcome |-> exc, msg |-> msg, kind |-> "none", value |-> <<>>]

ReturnNone(env) == Ok(env, "none", <<>>)

\* Python's failure to destructure or to do arithmetic on None
MsgUnpackNone == "cannot unpack non-iterable NoneType object"
MsgNoneOperand == "unsupported operand type(s): NoneType"

(***************************************************************************)
(* ExternalShear: the supplied primitives of a concrete thin lens.         *)
(***************************************************************************)
_null_params ==
    [n \in {"x0", "y0", "gamma_1", "gamma_2"} |->
        CASE n = "x0" -> RI(0)
          [] n = "y0" -> RI(0)
          [] n = "gamma_1" -> <<1, 10>>
          [] n = "gamma_2" -> <<1, 10>>]

\* func.reduced_deflection_angle_external_shear: the linear shear field
\* a_x = g1*x + g2*y, a_y = g2*x - g1*y about the centre (x0, y0)
reduced_deflection_angle_external_shear(x0, y0, gamma_1, gamma_2, x, y) ==
    LET xc == TSubS(x, x0)
        yc == TSubS(y, y0)
    IN  << TAdd(SMulT(gamma_1, xc), SMulT(gamma_2, yc)),
           TSub(SMulT(gamma_2, xc), SMulT(gamma_1, yc)) >>

\* func.potential_external_shear: psi = (x*a_x + y*a_y) / 2
potential_external_shear(x0, y0, gamma_1, gamma_2, x, y) ==
    LET a == reduced_deflection_angle_external_shear(x0, y0, gamma_1, gamma_2, x, y)
        xc == TSubS(x, x0)
        yc == TSubS(y, y0)
    IN  SMulT(<<1, 2>>, TAdd(TMul(xc, a[1]), TMul(yc, a[2])))

ExternalShear_reduced_deflection_angle(env, x, y, z_s) ==
    LET e == Log(env, "reduced_deflection_angle")
        p == unpack(e.self, e.params)
    IN  Ok(e, "pair",
           reduced_deflection_angle_external_shear(p[2], p[3], p[4], p[5], x, y))

ExternalShear_potential(env, x, y, z_s) ==
    LET e == Log(env, "potential")
        p == unpack(e.self, e.params)
    IN  Ok(e, "tensor", <<potential_external_shear(p[2], p[3], p[4], p[5], x, y)>>)

ExternalShear_convergence_of_shear(env, x, y, z_s) ==
    LET e == Log(env, "convergence")
        p == unpack(e.self, e.params)
    IN  Ok(e, "tensor", <<[i \in DOMAIN x |-> RAdd(p[4], p[5])]>>)

ExternalShear_convergence(env, x, y, z_s) ==
    Ok(Log(env, "convergence"), "tensor", <<zeros_like(x)>>)

(***************************************************************************)
(* ThickLens (base.py 16-170).                                             *)
(***************************************************************************)
\* the abstract primitives: the body is `...`, so a call that reaches the
\* base-class method runs to its end and returns None
ThickLens_raytrace(env, x, y, z_s) == ReturnNone(Log(env, "raytrace"))

ThickLens_surface_density(env, x, y, z_s) == ReturnNone(Log(env, "surface_density"))

ThickLens_time_delay(env, x, y, z_s) == ReturnNone(Log(env, "time_delay"))

\* ThickShear: a subclass that supplies the three primitives (a shear
\* field traced as a multi-plane lens would be, without a lens redshift)
ThickShear_raytrace(env, x, y, z_s) ==
    LET e == Log(env, "raytrace")
        p == unpack(e.self, e.params)
        a == reduced_deflection_angle_external_shear(RI(0), RI(0), p[1], p[2], x, y)
    IN  Ok(e, "pair", <<TSub(x, a[1]), TSub(y, a[2])>>)

ThickShear_surface_density(env, x, y, z_s) ==
    Ok(Log(env, "surface_density"), "tensor", <<zeros_like(x)>>)

ThickShear_time_delay(env, x, y, z_s) ==
    LET e == Log(env, "time_delay")
        p == unpack(e.self, e.params)
    IN  Ok(e, "tensor",
           <<TNeg(potential_external_shear(RI(0), RI(0), p[1], p[2], x, y))>>)

\* method resolution of self.raytrace / surface_density / time_delay
self_raytrace_thick(env, x, y, z_s) ==
    IF env.self.cls = "ThickShear" THEN ThickShear_raytrace(env, x, y, z_s)
    ELSE ThickLens_raytrace(env, x, y, z_s)

self_surface_density_thick(env, x, y, z_s) ==
    IF env.self.cls = "ThickShear" THEN ThickShear_surface_density(env, x, y, z_s)
    ELSE ThickLens_surface_density(env, x, y, z_s)

self_time_delay_thick(env, x, y, z_s) ==
    IF env.self.cls = "ThickShear" THEN ThickShear_time_delay(env, x, y, z_s)
    ELSE ThickLens_time_delay(env, x, y, z_s)

ThickLens_effective_reduced_deflection_angle_beta_minus_theta(env, x, y, z_s) ==
    LET e == Log(env, "effective_reduced_deflection_angle")
        b == self_raytrace_thick(e, x, y, z_s)
    IN  IF b.outcome # "ok" THEN b
        ELSE IF b.kind # "pair" THEN Raise(b.env, "TypeError", MsgUnpackNone)
        ELSE Ok(b.env, "pair", <<TSub(b.value[1], x), TSub(b.value[2], y)>>)

ThickLens_effective_reduced_deflection_angle(env, x, y, z_s) ==
    LET e == Log(env, "effective_reduced_deflection_angle")
        b == self_raytrace_thick(e, x, y, z_s)
    IN  IF b.outcome # "ok" THEN b
        ELSE IF b.kind # "pair" THEN Raise(b.env, "TypeError", MsgUnpackNone)
        ELSE Ok(b.env, "pair", <<TSub(x, b.value[1]), TSub(y, b.value[2])>>)

MsgThickReduced == "ThickLens objects do not have a reduced deflection angle since they have no unique lens redshift. The distance D_ls is undefined [...] See effective_reduced_deflection_angle. Now using effective_reduced_deflection_angle, please switch functions to remove this warning"

ThickLens_reduced_deflection_angle_silent(env, x, y, z_s) ==
    ThickLens_effective_reduced_deflection_angle(
        Log(env, "reduced_deflection_angle"), x, y, z_s)

ThickLens_reduced_deflection_angle(env, x, y, z_s) ==
    LET e == Warn(Log(env, "reduced_deflection_angle"), MsgThickReduced)
    IN  ThickLens_effective_reduced_deflection_angle(e, x, y, z_s)

MsgThickPhysical == "Physical deflection angles are computed with respect to a lensing plane. ThickLens objects have no unique definition of a lens plane and so cannot compute a physical_deflection_angle"

ThickLens_physical_deflection_angle_falls_back(env, x, y, z_s) ==
    ThickLens_effective_reduced_deflection_angle(
        Log(env, "physical_deflection_angle"), x, y, z_s)

ThickLens_physical_deflection_angle(env, x, y, z_s) ==
    Raise(Log(env, "physical_deflection_angle"), "NotImplementedError", MsgThickPhysical)

(***************************************************************************)
(* Magnification utility (utils.get_magnification): 1 / det(J) at every    *)
(* point, J the Jacobian of the observed -> source map.  Automatic         *)
(* differentiation of the shear field yields its constant derivative.      *)
(***************************************************************************)
shear_jacobian(gamma_1, gamma_2) ==
    << <<gamma_1, gamma_2>>, <<gamma_2, RNeg(gamma_1)>> >>

Det(A) == RSub(RMul(A[1][1], A[2][2]), RMul(A[1][2], A[2][1]))

\* d(x - a_x, y - a_y) / d(x, y) = I - da/d(x, y)
raytrace_jacobian(da) ==
    << <<RSub(RI(1), da[1][1]), RNeg(da[1][2])>>,
       <<RNeg(da[2][1]), RSub(RI(1), da[2][2])>> >>

get_magnification(J, x) == [i \in DOMAIN x |-> RDiv(RI(1), Det(J))]

ThickLens_magnification(env, x, y, z_s) ==
    LET e == Log(env, "magnification")
        b == self_raytrace_thick(e, x, y, z_s)
        p == unpack(e.self, e.params)
    IN  IF b.outcome # "ok" THEN b
        ELSE IF b.kind # "pair" THEN Raise(b.env, "TypeError", MsgUnpackNone)
        ELSE Ok(b.env, "tensor",
                <<get_magnification(raytrace_jacobian(shear_jacobian(p[1], p[2])), x)>>)

(***************************************************************************)
(* ThinLens (base.py 172-429).                                             *)
(***************************************************************************)
\* the abstract primitives: body `...`, a call returns None
ThinLens_reduced_deflection_angle(env, x, y, z_s) ==
    ReturnNone(Log(env, "reduced_deflection_angle"))

ThinLens_convergence(env, x, y, z_s) == ReturnNone(Log(env, "convergence"))

ThinLens_potential(env, x, y, z_s) == ReturnNone(Log(env, "potential"))

\* method resolution of self.reduced_deflection_angle / convergence / potential
self_reduced_deflection_angle(env, x, y, z_s) ==
    LET e == Received(env, "reduced_deflection_angle", <<z_s>>, env.params)
    IN  IF e.self.cls = "ExternalShear"
        THEN ExternalShear_reduced_deflection_angle(e, x, y, z_s)
        ELSE ThinLens_reduced_deflection_angle(e, x, y, z_s)

self_convergence(env, x, y, z_s) ==
    LET e == Received(env, "convergence", <<z_s>>, env.params)
    IN  IF e.self.cls = "ExternalShear"
        THEN ExternalShear_convergence(e, x, y, z_s)
        ELSE ThinLens_convergence(e, x, y, z_s)

self_potential(env, x, y, z_s) ==
    LET e == Received(env, "potential", <<z_s>>, env.params)
    IN  IF e.self.cls = "ExternalShear"
        THEN ExternalShear_potential(e, x, y, z_s)
        ELSE ThinLens_potential(e, x, y, z_s)

ThinLens_physical_deflection_angle(env, x, y, z_s) ==
    LET e0 == Log(env, "physical_deflection_angle")
        z_l == unpack(e0.self, e0.params)[1]
        e1 == Received(Log(e0, "cosmology.angular_diameter_distance"),
                       "cosmology.angular_diameter_distance", <<z_s>>, e0.params)
        d_s == angular_diameter_distance(e1.cosmology, z_s, e0.params)
        e2 == Received(Log(e1, "cosmology.angular_diameter_distance_z1z2"),
                       "cosmology.angular_diameter_distance_z1z2", <<z_l, z_s>>,
                       e0.params)
        d_ls == angular_diameter_distance_z1z2(e2.cosmology, z_l, z_s, e0.params)
        a == self_reduced_deflection_angle(e2, x, y, z_s)
    IN  IF a.outcome # "ok" THEN a
        ELSE IF a.kind # "pair" THEN Raise(a.env, "TypeError", MsgUnpackNone)
        ELSE Ok(a.env, "pair", <<SMulT(RDiv(d_s, d_ls), a.value[1]),
                                 SMulT(RDiv(d_s, d_ls), a.value[2])>>)

\* as ThinLens_surface_density, but z_l is read from the stored default
ThinLens_surface_density_stored_z_l(env, x, y, z_s) ==
    LET e0 == Log(env, "surface_density")
        z_l == e0.self.stored["z_l"]
        e1 == Received(Log(e0, "cosmology.critical_surface_density"),
                       "cosmology.critical_surface_density", <<z_l, z_s>>,
                       e0.params)
        crit == critical_surface_density(e1.cosmology, z_l, z_s, e0.params)
        k == self_convergence(e1, x, y, z_s)
    IN  IF k.outcome # "ok" THEN k
        ELSE IF k.kind # "tensor" THEN Raise(k.env, "TypeError", MsgNoneOperand)
        ELSE Ok(k.env, "tensor", <<TMulS(k.value[1], crit)>>)

\* line 289: z_l = self.unpack(params)[0]; line 291: the critical surface
\* density at (z_l, z_s, params); line 292: self.convergence(..., params)
ThinLens_surface_density(env, x, y, z_s) ==
    LET e0 == Log(env, "surface_density")
        z_l == unpack(e0.self, e0.params)[1]
        e1 == Received(Log(e0, "cosmology.critical_surface_density"),
                       "cosmology.critical_surface_density", <<z_l, z_s>>,
                       e0.params)
        crit == critical_surface_density(e1.cosmology, z_l, z_s, e0.params)
        k == self_convergence(e1, x, y, z_s)
    IN  IF k.outcome # "ok" THEN k
        ELSE IF k.kind # "tensor" THEN Raise(k.env, "TypeError", MsgNoneOperand)
        ELSE Ok(k.env, "tensor", <<TMulS(k.value[1], crit)>>)

ThinLens_raytrace_adds_deflection(env, x, y, z_s) ==
    LET e == Log(env, "raytrace")
        a == self_reduced_deflection_angle(e, x, y, z_s)
    IN  IF a.outcome # "ok" THEN a
        ELSE IF a.kind # "pair" THEN Raise(a.env, "TypeError", MsgUnpackNone)
        ELSE Ok(a.env, "pair", <<TAdd(x, a.value[1]), TAdd(y, a.value[2])>>)

ThinLens_raytrace(env, x, y, z_s) ==
    LET e == Log(env, "raytrace")
        a == self_reduced_deflection_angle(e, x, y, z_s)
    IN  IF a.outcome # "ok" THEN a
        ELSE IF a.kind # "pair" THEN Raise(a.env, "TypeError", MsgUnpackNone)
        ELSE Ok(a.env, "pair", <<TSub(x, a.value[1]), TSub(y, a.value[2])>>)

time_delay_value_without_one_plus(z_l, d_l, d_s, d_ls, ax, ay, potential) ==
    LET factor == RDiv(RMul(RMul(RDiv(z_l, c_Mpc_s), d_s), d_l), d_ls)
        fp == TSub(SMulT(RDiv(RMul(<<1, 2>>, RSq(d_ls)), RSq(d_s)),
                         TAdd(TSq(ax), TSq(ay))),
                   potential)
    IN  TMulS(SMulT(factor, fp), RSq(arcsec_to_rad))

\* lines 336-338: factor * fp * arcsec_to_rad**2
time_delay_value(z_l, d_l, d_s, d_ls, ax, ay, potential) ==
    LET factor == RDiv(RMul(RMul(RDiv(RAdd(RI(1), z_l), c_Mpc_s), d_s), d_l), d_ls)
        fp == TSub(SMulT(RDiv(RMul(<<1, 2>>, RSq(d_ls)), RSq(d_s)),
                         TAdd(TSq(ax), TSq(ay))),
                   potential)
    IN  TMulS(SMulT(factor, fp), RSq(arcsec_to_rad))

\* as ThinLens_time_delay, but the resolved z_l is kept on the lens
ThinLens_time_delay_keeps_z_l(env, x, y, z_s) ==
    LET e0 == Log(env, "time_delay")
        z_l == unpack(e0.self, e0.params)[1]
        kept == [e0 EXCEPT !.self.stored["z_l"] = z_l]
        e1 == Received(Log(kept, "cosmology.angular_diameter_distance"),
                       "cosmology.angular_diameter_distance", <<z_l>>, e0.params)
        d_l == angular_diameter_distance(e1.cosmology, z_l, e0.params)
        e2 == Received(Log(e1, "cosmology.angular_diameter_distance"),
                       "cosmology.angular_diameter_distance", <<z_s>>, e0.params)
        d_s == angular_diameter_distance(e2.cosmology, z_s, e0.params)
        e3 == Received(Log(e2, "cosmology.angular_diameter_distance_z1z2"),
                       "cosmology.angular_diameter_distance_z1z2", <<z_l, z_s>>,
                       e0.params)
        d_ls == angular_diameter_distance_z1z2(e3.cosmology, z_l, z_s, e0.params)
        a == self_reduced_deflection_angle(e3, x, y, z_s)
        pot == self_potential(a.env, x, y, z_s)
    IN  IF a.outcome # "ok" THEN a
        ELSE IF a.kind # "pair" THEN Raise(a.env, "TypeError", MsgUnpackNone)
        ELSE IF pot.outcome # "ok" THEN pot
        ELSE IF pot.kind # "tensor" THEN Raise(pot.env, "TypeError", MsgNoneOperand)
        ELSE Ok(pot.env, "tensor",
                <<time_delay_value(z_l, d_l, d_s, d_ls,
                                   a.value[1], a.value[2], pot.value[1])>>)

ThinLens_time_delay(env, x, y, z_s) ==
    LET e0 == Log(env, "time_delay")
        z_l == unpack(e0.self, e0.params)[1]
        e1 == Received(Log(e0, "cosmology.angular_diameter_distance"),
                       "cosmology.angular_diameter_distance", <<z_l>>, e0.params)
        d_l == angular_diameter_distance(e1.cosmology, z_l, e0.params)
        e2 == Received(Log(e1, "cosmology.angular_diameter_distance"),
                       "cosmology.angular_diameter_distance", <<z_s>>, e0.params)
        d_s == angular_diameter_distance(e2.cosmology, z_s, e0.params)
        e3 == Received(Log(e2, "cosmology.angular_diameter_distance_z1z2"),
                       "cosmology.angular_diameter_distance_z1z2", <<z_l, z_s>>,
                       e0.params)
        d_ls == angular_diameter_distance_z1z2(e3.cosmology, z_l, z_s, e0.params)
        a == self_reduced_deflection_angle(e3, x, y, z_s)
        pot == self_potential(a.env, x, y, z_s)
    IN  IF a.outcome # "ok" THEN a
        ELSE IF a.kind # "pair" THEN Raise(a.env, "TypeError", MsgUnpackNone)
        ELSE IF pot.outcome # "ok" THEN pot
        ELSE IF pot.kind # "tensor" THEN Raise(pot.env, "TypeError", MsgNoneOperand)
        ELSE Ok(pot.env, "tensor",
                <<time_delay_value(z_l, d_l, d_s, d_ls,
                                   a.value[1], a.value[2], pot.value[1])>>)

(***************************************************************************)
(* The two Jacobian methods and their dispatch (base.py 340-413).          *)
(***************************************************************************)
\* x.shape[-1]: a batch has shape (m, 1)
shape_last(x) == 1

\* torch.fft.fftfreq(N, d), indexed from 0
fftfreq(N, d) ==
    [j \in 0..(N - 1) |->
        IF 2 * j < N THEN RDiv(RI(j), RMul(RI(N), d))
        ELSE RDiv(RI(j - N), RMul(RI(N), d))]

\* sum of a 2x2 array indexed by <<u, v>>, u, v in 0..1
Sum2x2(f) ==
    RAdd(RAdd(f[<<0, 0>>], f[<<0, 1>>]), RAdd(f[<<1, 0>>], f[<<1, 1>>]))

\* the two-point DFT kernel exp(-2 pi i k / 2) = (-1)^k
Omega2(k) == IF k % 2 = 0 THEN RI(1) ELSE RI(-1)

\* torch.fft.fft2(a, (2, 2)) of an (m, 1) tensor: trimmed / zero-padded to 2x2
fft2(a) ==
    LET padded == [ij \in (0..1) \X (0..1) |->
                      IF ij[1] < Len(a) /\ ij[2] < 1 THEN a[ij[1] + 1] ELSE RI(0)]
    IN  [uv \in (0..1) \X (0..1) |->
            Sum2x2([ij \in (0..1) \X (0..1) |->
                       RMul(padded[ij], Omega2(uv[1] * ij[1] + uv[2] * ij[2]))])]

ifft2(F) ==
    [ij \in (0..1) \X (0..1) |->
        RMul(<<1, 4>>,
             Sum2x2([uv \in (0..1) \X (0..1) |->
                        RMul(F[uv], Omega2(uv[1] * ij[1] + uv[2] * ij[2]))]))]

\* lines 358-372, for n = 1 (pad = 2): the Jacobian at the one grid point
\* kept by the crop [..., :n, :n]
lensing_jacobian_fft(potential, pixelscale, n) ==
    LET k == fftfreq(2 * n, pixelscale)
        kx == [uv \in (0..1) \X (0..1) |-> k[uv[2]]]
        ky == [uv \in (0..1) \X (0..1) |-> k[uv[1]]]
        potential_tilde == fft2(potential)
        potential_xx == RAbs(ifft2([uv \in (0..1) \X (0..1) |->
                            RMul(RNeg(RSq(kx[uv])), potential_tilde[uv])])[<<0, 0>>])
        potential_yy == RAbs(ifft2([uv \in (0..1) \X (0..1) |->
                            RMul(RNeg(RSq(ky[uv])), potential_tilde[uv])])[<<0, 0>>])
        potential_xy == RAbs(ifft2([uv \in (0..1) \X (0..1) |->
                            RMul(RMul(RNeg(kx[uv]), ky[uv]), potential_tilde[uv])])[<<0, 0>>])
    IN  << << <<RSub(RI(1), potential_xx), RNeg(potential_xy)>>,
              <<RNeg(potential_xy), RSub(RI(1), potential_yy)>> >> >>

ThinLens_lensing_jacobian_fft_method(env, x, y, z_s, pixelscale) ==
    LET e == Log(env, "_lensing_jacobian_fft_method")
        pot == self_potential(e, x, y, z_s)
    IN  IF pot.outcome # "ok" THEN pot
        ELSE IF pot.kind # "tensor"
        THEN Raise(Log(pot.env, "torch.fft.fft2"), "TypeError", MsgNoneOperand)
        ELSE Ok(Log(pot.env, "torch.fft.fft2"), "jacobian",
                <<lensing_jacobian_fft(pot.value[1], pixelscale, shape_last(x))>>)

\* torch.autograd.grad(..., create_graph=True) gives a tensor that tracks
\* gradients when the derivative depends on a tracking tensor.  The shear
\* Jacobian depends on gamma_1 and gamma_2 alone; a value read from an
\* override container (the parameters being fitted) tracks, a stored
\* default does not.
derivative_tracks(env) ==
    /\ ~env.params.is_none
    /\ {"gamma_1", "gamma_2"} \cap DOMAIN env.params.vals # {}

ThinLens_jacobian_reduced_deflection_angle_autograd_in_place(env, x, y, z_s) ==
    LET e == Log(env, "_jacobian_reduced_deflection_angle_autograd")
        d == requires_grad_(requires_grad_(e, "x"), "y")
        a == self_reduced_deflection_angle(d, x, y, z_s)
        p == unpack(e.self, e.params)
    IN  IF a.outcome # "ok" THEN a
        ELSE IF a.kind # "pair" THEN Raise(a.env, "TypeError", MsgUnpackNone)
        ELSE Ok(detach([Log(a.env, "torch.autograd.grad") EXCEPT
                            !.requires_grad.J = derivative_tracks(a.env)],
                       "J", "J"), "jacobian",
                <<[i \in DOMAIN x |-> shear_jacobian(p[4], p[5])]>>)

\* lines 382-383 rebind the local names x and y to detached copies and switch
\* tracking on there; line 389 makes J, lines 390-393 fill it, line 394
\* returns J.detach()
ThinLens_jacobian_reduced_deflection_angle_autograd(env, x, y, z_s) ==
    LET e == Log(env, "_jacobian_reduced_deflection_angle_autograd")
        d == requires_grad_(requires_grad_(detach(detach(e, "x", "x_detached"),
                                                  "y", "y_detached"),
                                           "x_detached"), "y_detached")
        a == self_reduced_deflection_angle(d, x, y, z_s)
        p == unpack(e.self, e.params)
        g == Log(a.env, "torch.autograd.grad")
        filled == [g EXCEPT !.requires_grad.J = derivative_tracks(g)]
    IN  IF a.outcome # "ok" THEN a
        ELSE IF a.kind # "pair" THEN Raise(a.env, "TypeError", MsgUnpackNone)
        ELSE Ok(detach(filled, "J", "J"), "jacobian",
                <<[i \in DOMAIN x |-> shear_jacobian(p[4], p[5])]>>)

MsgPixelscale == "FFT lensing jacobian requires regular grid and known pixelscale. Please include the pixelscale argument"
MsgMethod == "method should be one of: autograd, fft"

\* pixelscale is None ([is_none |-> TRUE]) or the number val
ThinLens_jacobian_reduced_deflection_angle_default_autograd(env, x, y, z_s, method, pixelscale) ==
    LET e == Log(env, "jacobian_reduced_deflection_angle")
    IN  IF method = "fft"
        THEN IF pixelscale.is_none
             THEN Raise(e, "ValueError", MsgPixelscale)
             ELSE ThinLens_lensing_jacobian_fft_method(e, x, y, z_s, pixelscale.val)
        ELSE ThinLens_jacobian_reduced_deflection_angle_autograd(e, x, y, z_s)

ThinLens_jacobian_reduced_deflection_angle_unchecked_pixelscale(env, x, y, z_s, method, pixelscale) ==
    LET e == Log(env, "jacobian_reduced_deflection_angle")
    IN  IF method = "autograd"
        THEN ThinLens_jacobian_reduced_deflection_angle_autograd(e, x, y, z_s)
        ELSE IF method = "fft"
        THEN ThinLens_lensing_jacobian_fft_method(e, x, y, z_s, pixelscale.val)
        ELSE Raise(e, "ValueError", MsgMethod)

ThinLens_jacobian_reduced_deflection_angle(env, x, y, z_s, method, pixelscale) ==
    LET e == Log(env, "jacobian_reduced_deflection_angle")
    IN  IF method = "autograd"
        THEN ThinLens_jacobian_reduced_deflection_angle_autograd(e, x, y, z_s)
        ELSE IF method = "fft"
        THEN IF pixelscale.is_none
             THEN Raise(e, "ValueError", MsgPixelscale)
             ELSE ThinLens_lensing_jacobian_fft_method(e, x, y, z_s, pixelscale.val)
        ELSE Raise(e, "ValueError", MsgMethod)

ThinLens_magnification(env, x, y, z_s) ==
    LET e == Log(env, "magnification")
        b == ThinLens_raytrace(e, x, y, z_s)
        p == unpack(e.self, e.params)
    IN  IF b.outcome # "ok" THEN b
        ELSE Ok(b.env, "tensor",
                <<get_magnification(raytrace_jacobian(shear_jacobian(p[4], p[5])), x)>>)

(***************************************************************************)
(* Inputs.                                                                 *)
(***************************************************************************)
Shears == {Rat(k, 10) : k \in 0..MaxShear}
LensRedshifts == {RI(1)}
SourceRedshifts == {RI(3)}
Hubbles == {RI(1)}

\* x and y of one call have the same shape (m, 1): one column of a
\* meshgrid of unit pixel scale, x constant and y running down the column,
\* the first pixel at most MaxCoord pixels away from the origin; a call
\* passes a single point or a whole column of MaxLen points
Batches ==
    {<<[i \in 1..m |-> RI(cd[1])], [i \in 1..m |-> RI(cd[2] + i - 1)]>> :
        cd \in {p \in (0..MaxCoord) \X (0..MaxCoord) : p[1] + p[2] <= MaxCoord},
        m \in {1, MaxLen}}

\* the override containers a caller passes: none, the shear, or the lens
\* redshift with the shear centre and the cosmology's parameter
Overrides ==
    {NoParams}
    \cup {Packed(("gamma_1" :> Rat(MaxShear, 10)) @@ ("gamma_2" :> RI(0)))}
    \cup {Packed(("z_l" :> RI(2)) @@ ("x0" :> RI(1)) @@ ("h0" :> RI(2)))}

Methods == {"autograd", "fft", "bogus"}
NoPixelscale == [is_none |-> TRUE, val |-> RI(0)]
Pixelscales == {NoPixelscale, [is_none |-> FALSE, val |-> RI(1)]}

\* the tracking flags <<x.requires_grad, y.requires_grad>> of the caller's
\* grid: both tensors come from one meshgrid call
GradFlags == {<<FALSE, FALSE>>, <<TRUE, TRUE>>}

\* the lens objects a program constructs (the stored shear components are
\* equal, as in the null parameters; overrides make them differ)
Lenses ==
    {[cls |-> "ExternalShear",
      stored |-> ("z_l" :> z) @@ ("x0" :> RI(0)) @@ ("y0" :> RI(0))
                 @@ ("gamma_1" :> g) @@ ("gamma_2" :> g)] :
        z \in LensRedshifts, g \in Shears}
    \cup {[cls |-> "ThinLens", stored |-> ("z_l" :> z)] : z \in LensRedshifts}
    \cup {[cls |-> "ThickShear",
           stored |-> ("gamma_1" :> g) @@ ("gamma_2" :> g)] : g \in Shears}
    \cup {[cls |-> "ThickLens", stored |-> [n \in {} |-> RI(0)]]}

Cosmologies == {[stored |-> ("h0" :> h)] : h \in Hubbles}

IsThin(l) == l.cls \in {"ThinLens", "ExternalShear"}
IsThick(l) == l.cls \in {"ThickLens", "ThickShear"}

(***************************************************************************)
(* State.                                                                  *)
(***************************************************************************)
VARIABLES
    lens,        \* the lens object: class and stored parameter defaults
    cosmology,   \* the cosmology object the lens refers to
    made,        \* the lens and cosmology as they were constructed
    coords,      \* the caller's coordinate tensors x, y and source redshift z_s
    call,        \* the last call: method, override container, keyword arguments,
                 \* and whether an earlier call was given an override
    ret          \* its outcome, value, trace and the objects after it

vars == <<lens, cosmology, made, coords, call, ret>>

Init ==
    /\ lens \in Lenses
    /\ cosmology \in Cosmologies
    /\ made = [lens |-> lens, cosmology |-> cosmology]
    /\ \E b \in Batches, z_s \in SourceRedshifts, g \in GradFlags :
          coords = [x |-> b[1], y |-> b[2], z_s |-> z_s,
                    x_requires_grad |-> g[1], y_requires_grad |-> g[2]]
    /\ call = [op |-> "__init__", params |-> NoParams, method |-> "autograd",
               pixelscale |-> NoPixelscale, earlier_override |-> FALSE]
    /\ ret = ReturnNone(Env(lens, cosmology, NoParams))

\* the state after a call that returned (or raised) r
Returned(op, params, method, pixelscale, r) ==
    /\ call' = [op |-> op, params |-> params, method |-> method,
                pixelscale |-> pixelscale,
                earlier_override |-> call.earlier_override \/ ~call.params.is_none]
    /\ ret' = r
    /\ lens' = ret'.env.self
    /\ cosmology' = ret'.env.cosmology
    /\ coords' = [coords EXCEPT !.x_requires_grad = ret'.env.requires_grad.x,
                                !.y_requires_grad = ret'.env.requires_grad.y]
    /\ UNCHANGED made

\* the environment of a call made now with the override container params
Entry(params) ==
    Tracking(Env(lens, cosmology, params),
             coords.x_requires_grad, coords.y_requires_grad)

\* one call lens.<op>(x, y, z_s, params)
Invoke(op, F(_, _, _, _), params) ==
    Returned(op, params, "autograd", NoPixelscale,
             F(Entry(params), coords.x, coords.y, coords.z_s))

(***************************************************************************)
(* Calls on a thick lens.                                                  *)
(***************************************************************************)
Call_ThickLens_reduced_deflection_angle ==
    /\ IsThick(lens)
    /\ \E params \in Overrides :
          Invoke("ThickLens.reduced_deflection_angle",
                 ThickLens_reduced_deflection_angle, params)

Call_ThickLens_effective_reduced_deflection_angle ==
    /\ IsThick(lens)
    /\ \E params \in Overrides :
          Invoke("ThickLens.effective_reduced_deflection_angle",
                 ThickLens_effective_reduced_deflection_angle, params)

Call_ThickLens_physical_deflection_angle ==
    /\ IsThick(lens)
    /\ \E params \in Overrides :
          Invoke("ThickLens.physical_deflection_angle",
                 ThickLens_physical_deflection_angle, params)

Call_ThickLens_raytrace ==
    /\ IsThick(lens)
    /\ \E params \in Overrides :
          Invoke("ThickLens.raytrace", self_raytrace_thick, params)

Call_ThickLens_surface_density ==
    /\ IsThick(lens)
    /\ \E params \in Overrides :
          Invoke("ThickLens.surface_density", self_surface_density_thick, params)

Call_ThickLens_time_delay ==
    /\ IsThick(lens)
    /\ \E params \in Overrides :
          Invoke("ThickLens.time_delay", self_time_delay_thick, params)

Call_ThickLens_magnification ==
    /\ IsThick(lens)
    /\ \E params \in Overrides :
          Invoke("ThickLens.magnification", ThickLens_magnification, params)

(***************************************************************************)
(* Calls on a thin lens.                                                   *)
(***************************************************************************)
Call_ThinLens_reduced_deflection_angle ==
    /\ IsThin(lens)
    /\ \E params \in Overrides :
          Invoke("ThinLens.reduced_deflection_angle",
                 self_reduced_deflection_angle, params)

Call_ThinLens_convergence ==
    /\ IsThin(lens)
    /\ \E params \in Overrides :
          Invoke("ThinLens.convergence", self_convergence, params)

Call_ThinLens_potential ==
    /\ IsThin(lens)
    /\ \E params \in Overrides :
          Invoke("ThinLens.potential", self_potential, params)

Call_ThinLens_physical_deflection_angle ==
    /\ IsThin(lens)
    /\ \E params \in Overrides :
          Invoke("ThinLens.physical_deflection_angle",
                 ThinLens_physical_deflection_angle, params)

Call_ThinLens_surface_density ==
    /\ IsThin(lens)
    /\ \E params \in Overrides :
          Invoke("ThinLens.surface_density", ThinLens_surface_density, params)

Call_ThinLens_raytrace ==
    /\ IsThin(lens)
    /\ \E params \in Overrides :
          Invoke("ThinLens.raytrace", ThinLens_raytrace, params)

Call_ThinLens_time_delay ==
    /\ IsThin(lens)
    /\ \E params \in Overrides :
          Invoke("ThinLens.time_delay", ThinLens_time_delay, params)

Call_ThinLens_jacobian_reduced_deflection_angle ==
    /\ IsThin(lens)
    /\ \E params \in Overrides, method \in Methods, pixelscale \in Pixelscales :
          Returned("ThinLens.jacobian_reduced_deflection_angle",
                   params, method, pixelscale,
                   ThinLens_jacobian_reduced_deflection_angle(
                       Entry(params),
                       coords.x, coords.y, coords.z_s, method, pixelscale))

Call_ThinLens_magnification ==
    /\ IsThin(lens)
    /\ \E params \in Overrides :
          Invoke("ThinLens.magnification", ThinLens_magnification, params)

Next ==
    \/ Call_ThickLens_reduced_deflection_angle
    \/ Call_ThickLens_effective_reduced_deflection_angle
    \/ Call_ThickLens_physical_deflection_angle
    \/ Call_ThickLens_raytrace
    \/ Call_ThickLens_surface_density
    \/ Call_ThickLens_time_delay
    \/ Call_ThickLens_magnification
    \/ Call_ThinLens_reduced_deflection_angle
    \/ Call_ThinLens_convergence
    \/ Call_ThinLens_potential
    \/ Call_ThinLens_physical_deflection_angle
    \/ Call_ThinLens_surface_density
    \/ Call_ThinLens_raytrace
    \/ Call_ThinLens_time_delay
    \/ Call_ThinLens_jacobian_reduced_deflection_angle
    \/ Call_ThinLens_magnification

Spec == Init /\ [][Next]_vars

TypeOK ==
    /\ lens \in Lenses
    /\ cosmology \in Cosmologies
    /\ ret.outcome \in {"ok", "TypeError", "ValueError", "NotImplementedError"}
    /\ ret.kind \in {"none", "tensor", "pair", "jacobian"}

(***************************************************************************)
(* Properties.                                                             *)
(***************************************************************************)
\* the environment the last call was made in
CallEnv == Entry(call.params)

Events(log, e) == {i \in DOMAIN log : log[i] = e}

\* C1: for any thin lens whose reduced_deflection_angle returns (a_x, a_y)
\* for x, y, z_s and params, raytrace with the same arguments returns
\* exactly (x - a_x, y - a_y), and it calls reduced_deflection_angle and
\* nothing else.
C1_RaytraceIsThetaMinusAlpha ==
    call.op = "ThinLens.raytrace" =>
        LET a == self_reduced_deflection_angle(CallEnv, coords.x, coords.y, coords.z_s)
        IN  (a.outcome = "ok" /\ a.kind = "pair") =>
                /\ ret.outcome = "ok"
                /\ ret.kind = "pair"
                /\ ret.value = <<TSub(coords.x, a.value[1]), TSub(coords.y, a.value[2])>>
                /\ ret.env.log = <<"raytrace", "reduced_deflection_angle">>

C1_Witness ==
    /\ call.op = "ThinLens.raytrace"
    /\ ~call.params.is_none
    /\ ret.outcome = "ok"
    /\ Len(coords.x) = 2
    /\ ret.value[1] # coords.x
    /\ ret.value[2] # coords.y

C4_ThickPhysicalNotImplemented ==
    call.op = "ThickLens.physical_deflection_angle" =>
        /\ ret.outcome = "NotImplementedError"
        /\ ret.msg = MsgThickPhysical
        /\ ret.kind = "none"
        /\ ret.env.warnings = <<>>
        /\ ret.env.log = <<"physical_deflection_angle">>

C4_Witness ==
    /\ call.op = "ThickLens.physical_deflection_angle"
    /\ lens.cls = "ThickShear"
    /\ ~call.params.is_none
    /\ ret.outcome = "NotImplementedError"

\* C5: jacobian_reduced_deflection_angle with a method other than
\* "autograd" and "fft" ends with a ValueError that lists autograd and
\* fft, whether pixelscale is given or not, and evaluates neither
\* reduced_deflection_angle nor potential.
C5_UnknownMethodIsValueError ==
    (call.op = "ThinLens.jacobian_reduced_deflection_angle"
        /\ call.method \notin {"autograd", "fft"}) =>
        /\ ret.outcome = "ValueError"
        /\ ret.msg = "method should be one of: autograd, fft"
        /\ ret.kind = "none"
        /\ ret.env.log = <<"jacobian_reduced_deflection_angle">>

C5_Witness ==
    /\ call.op = "ThinLens.jacobian_reduced_deflection_angle"
    /\ call.method = "bogus"
    /\ ~call.pixelscale.is_none
    /\ lens.cls = "ExternalShear"
    /\ ret.outcome = "ValueError"

\* C6: with method "fft" and no pixelscale the call ends with a ValueError
\* that names the pixelscale argument, before the potential is evaluated
\* or a transform is computed; with method "fft" and a pixelscale it
\* enters the FFT method; with method "autograd" it enters the autograd
\* method whether or not a pixelscale is given, and never fails for want
\* of one.
C6_FftRequiresPixelscale ==
    call.op = "ThinLens.jacobian_reduced_deflection_angle" =>
        /\ (call.method = "fft" /\ call.pixelscale.is_none) =>
              /\ ret.outcome = "ValueError"
              /\ ret.msg = "FFT lensing jacobian requires regular grid and known pixelscale. Please include the pixelscale argument"
              /\ ret.env.log = <<"jacobian_reduced_deflection_angle">>
        /\ (call.method = "fft" /\ ~call.pixelscale.is_none) =>
              /\ Len(ret.env.log) >= 3
              /\ ret.env.log[2] = "_lensing_jacobian_fft_method"
              /\ ret.env.log[3] = "potential"
              /\ ret.outcome # "ValueError"
        /\ call.method = "autograd" =>
              /\ Len(ret.env.log) >= 2
              /\ ret.env.log[2] = "_jacobian_reduced_deflection_angle_autograd"
              /\ ret.outcome # "ValueError"

C6_Witness ==
    /\ call.op = "ThinLens.jacobian_reduced_deflection_angle"
    /\ call.method = "fft"
    /\ call.pixelscale.is_none
    /\ lens.cls = "ExternalShear"
    /\ ret.outcome = "ValueError"

\* C7: a call of a required primitive that the subclass has not supplied
\* ends with NotImplementedError; it does not return a value (such as
\* None) for a derived operation to consume.
UnsuppliedPrimitiveCalled ==
    \/ /\ lens.cls = "ThickLens"
       /\ call.op \in {"ThickLens.raytrace", "ThickLens.surface_density",
                       "ThickLens.time_delay"}
    \/ /\ lens.cls = "ThinLens"
       /\ call.op \in {"ThinLens.reduced_deflection_angle",
                       "ThinLens.convergence", "ThinLens.potential"}

C7_UnsuppliedPrimitiveNotImplemented ==
    UnsuppliedPrimitiveCalled =>
        /\ ret.outcome = "NotImplementedError"
        /\ ret.kind = "none"

\* C8: time_delay is factor * fp * (arcsec->rad)^2 with
\* factor = (1+z_l)/c * D_s*D_l/D_ls and
\* fp = 1/2*(D_ls/D_s)^2*(a_x^2+a_y^2) - potential, and it is linear in
\* (1+z_l): with the distances, the deflection and the potential held
\* fixed, t(z_l) * (1+z_2) = t(z_2) * (1+z_l) for any other redshift z_2.
OtherRedshifts == {RI(0), RI(2), RI(5)}

C8_TimeDelayLinearInOnePlusZl ==
    (call.op = "ThinLens.time_delay" /\ ret.outcome = "ok") =>
        LET z_l == unpack(lens, call.params)[1]
            d_l == angular_diameter_distance(cosmology, z_l, call.params)
            d_s == angular_diameter_distance(cosmology, coords.z_s, call.params)
            d_ls == angular_diameter_distance_z1z2(cosmology, z_l, coords.z_s, call.params)
            a == self_reduced_deflection_angle(CallEnv, coords.x, coords.y, coords.z_s).value
            psi == self_potential(CallEnv, coords.x, coords.y, coords.z_s).value[1]
            factor == RMul(RDiv(RAdd(RI(1), z_l), c_Mpc_s), RDiv(RMul(d_s, d_l), d_ls))
            t == ret.value[1]
        IN  /\ DOMAIN t = DOMAIN coords.x
            /\ \A i \in DOMAIN t :
                  t[i] = RMul(RMul(factor,
                                   RSub(RMul(RMul(<<1, 2>>, RSq(RDiv(d_ls, d_s))),
                                             RAdd(RSq(a[1][i]), RSq(a[2][i]))),
                                        psi[i])),
                              RSq(arcsec_to_rad))
            /\ \A z_2 \in OtherRedshifts : \A i \in DOMAIN t :
                  RMul(t[i], RAdd(RI(1), z_2))
                    = RMul(time_delay_value(z_2, d_l, d_s, d_ls, a[1], a[2], psi)[i],
                           RAdd(RI(1), z_l))

C8_Witness ==
    /\ call.op = "ThinLens.time_delay"
    /\ ret.outcome = "ok"
    /\ ~call.params.is_none
    /\ \E i \in DOMAIN ret.value[1] : ret.value[1][i] # RI(0)

DerivedOps ==
    {"ThinLens.raytrace", "ThinLens.physical_deflection_angle",
     "ThinLens.surface_density", "ThinLens.time_delay",
     "ThinLens.jacobian_reduced_deflection_angle", "ThinLens.magnification",
     "ThickLens.effective_reduced_deflection_angle",
     "ThickLens.physical_deflection_angle", "ThickLens.magnification"}

\* the call `call` made on the objects of env
Replay(env) ==
    CASE call.op = "ThinLens.raytrace" ->
            ThinLens_raytrace(env, coords.x, coords.y, coords.z_s)
      [] call.op = "ThinLens.physical_deflection_angle" ->
            ThinLens_physical_deflection_angle(env, coords.x, coords.y, coords.z_s)
      [] call.op = "ThinLens.surface_density" ->
            ThinLens_surface_density(env, coords.x, coords.y, coords.z_s)
      [] call.op = "ThinLens.time_delay" ->
            ThinLens_time_delay(env, coords.x, coords.y, coords.z_s)
      [] call.op = "ThinLens.jacobian_reduced_deflection_angle" ->
            ThinLens_jacobian_reduced_deflection_angle(
                env, coords.x, coords.y, coords.z_s, call.method, call.pixelscale)
      [] call.op = "ThinLens.magnification" ->
            ThinLens_magnification(env, coords.x, coords.y, coords.z_s)
      [] call.op = "ThickLens.effective_reduced_deflection_angle" ->
            ThickLens_effective_reduced_deflection_angle(
                env, coords.x, coords.y, coords.z_s)
      [] call.op = "ThickLens.physical_deflection_angle" ->
            ThickLens_physical_deflection_angle(env, coords.x, coords.y, coords.z_s)
      [] call.op = "ThickLens.magnification" ->
            ThickLens_magnification(env, coords.x, coords.y, coords.z_s)

C10_DerivedOperationsLeaveStoredStateAlone ==
    /\ lens = made.lens
    /\ cosmology = made.cosmology
    /\ ret.env.params = call.params
    /\ (call.op \in DerivedOps /\ call.params.is_none) =>
          LET asmade == Replay(Env(made.lens, made.cosmology, NoParams))
          IN  /\ ret.outcome = asmade.outcome
              /\ ret.kind = asmade.kind
              /\ ret.value = asmade.value

C10_Witness ==
    /\ call.op = "ThinLens.time_delay"
    /\ call.earlier_override
    /\ call.params.is_none
    /\ lens.cls = "ExternalShear"
    /\ ret.outcome = "ok"
    /\ \E i \in DOMAIN ret.value[1] : ret.value[1][i] # RI(0)

\* C11: the autograd Jacobian leaks no gradient tracking.  Across a call
\* jacobian_reduced_deflection_angle(x, y, z_s, method="autograd") that
\* returns, the caller's x and y keep their values and their requires_grad
\* flags, tracking is switched on only on the detached copies, and the
\* Jacobian returned does not track gradients.
C11_AutogradJacobianLeaksNoTracking ==
    [][(/\ call'.op = "ThinLens.jacobian_reduced_deflection_angle"
        /\ call'.method = "autograd"
        /\ ret'.outcome = "ok")
       => /\ coords' = coords
          /\ ret'.env.requires_grad.x = coords.x_requires_grad
          /\ ret'.env.requires_grad.y = coords.y_requires_grad
          /\ ret'.env.requires_grad.x_detached
          /\ ret'.env.requires_grad.y_detached
          /\ ret'.kind = "jacobian"
          /\ ~ret'.env.requires_grad.J]_vars

\* an autograd Jacobian of a shear with fitted (tracking) components has
\* returned to a caller whose grid does not track gradients
C11_Witness ==
    /\ call.op = "ThinLens.jacobian_reduced_deflection_angle"
    /\ call.method = "autograd"
    /\ ret.outcome = "ok"
    /\ ret.kind = "jacobian"
    /\ derivative_tracks(ret.env)
    /\ ~coords.x_requires_grad
    /\ ~coords.y_requires_grad
    /\ ret.env.requires_grad.x_detached
    /\ ~ret.env.requires_grad.J

LensRedshiftOps ==
    {"ThinLens.physical_deflection_angle", "ThinLens.surface_density",
     "ThinLens.time_delay"}

\* what a callee is handed when the caller passes its own override on
Handed(callee, z) == [callee |-> callee, z |-> z, params |-> call.params]

\* the calls of the last operation, in order, for the lens redshift z_l
ExpectedReceived(z_l) ==
    CASE call.op = "ThinLens.physical_deflection_angle" ->
            <<Handed("cosmology.angular_diameter_distance", <<coords.z_s>>),
              Handed("cosmology.angular_diameter_distance_z1z2", <<z_l, coords.z_s>>),
              Handed("reduced_deflection_angle", <<coords.z_s>>)>>
      [] call.op = "ThinLens.surface_density" ->
            <<Handed("cosmology.critical_surface_density", <<z_l, coords.z_s>>),
              Handed("convergence", <<coords.z_s>>)>>
      [] call.op = "ThinLens.time_delay" ->
            <<Handed("cosmology.angular_diameter_distance", <<z_l>>),
              Handed("cosmology.angular_diameter_distance", <<coords.z_s>>),
              Handed("cosmology.angular_diameter_distance_z1z2", <<z_l, coords.z_s>>),
              Handed("reduced_deflection_angle", <<coords.z_s>>),
              Handed("potential", <<coords.z_s>>)>>
      [] OTHER -> <<>>

\* the result of the last operation when every quantity in it is resolved
\* from the override of the call, with the lens redshift z_l
OneSnapshotValue(z_l) ==
    LET z_s == coords.z_s
        d_l == angular_diameter_distance(cosmology, z_l, call.params)
        d_s == angular_diameter_distance(cosmology, z_s, call.params)
        d_ls == angular_diameter_distance_z1z2(cosmology, z_l, z_s, call.params)
        a == self_reduced_deflection_angle(CallEnv, coords.x, coords.y, z_s).value
        k == self_convergence(CallEnv, coords.x, coords.y, z_s).value
        pot == self_potential(CallEnv, coords.x, coords.y, z_s).value
    IN  CASE call.op = "ThinLens.physical_deflection_angle" ->
                <<SMulT(RDiv(d_s, d_ls), a[1]), SMulT(RDiv(d_s, d_ls), a[2])>>
          [] call.op = "ThinLens.surface_density" ->
                <<TMulS(k[1], critical_surface_density(cosmology, z_l, z_s,
                                                       call.params))>>
          [] call.op = "ThinLens.time_delay" ->
                <<time_delay_value(z_l, d_l, d_s, d_ls, a[1], a[2], pot[1])>>
          [] OTHER -> <<>>

\* C12: physical_deflection_angle, surface_density and time_delay of a thin
\* lens take z_l as the first value of the resolved parameter tuple (z_l is
\* declared before the subclass's parameters): the override's value when
\* the override holds one, else the stored default.  Every cosmology call
\* and every primitive of the operation is handed the caller's override
\* unchanged and that z_l, and the result combines quantities resolved from
\* that one override.
C12_LensRedshiftFromOneSnapshot ==
    call.op \in LensRedshiftOps =>
        LET z_l == IF ~call.params.is_none /\ "z_l" \in DOMAIN call.params.vals
                   THEN call.params.vals["z_l"]
                   ELSE lens.stored["z_l"]
            got == ret.env.received
            expected == ExpectedReceived(z_l)
        IN  /\ ParamOrder(lens.cls)[1] = "z_l"
            /\ unpack(lens, call.params)[1] = z_l
            /\ Len(got) <= Len(expected)
            /\ \A i \in DOMAIN got : got[i] = expected[i]
            /\ ret.outcome = "ok" =>
                  /\ got = expected
                  /\ ret.value = OneSnapshotValue(z_l)

\* a surface density has been computed under an override that moves the
\* lens redshift away from the stored default
C12_Witness ==
    /\ call.op = "ThinLens.surface_density"
    /\ ret.outcome = "ok"
    /\ ~call.params.is_none
    /\ "z_l" \in DOMAIN call.params.vals
    /\ call.params.vals["z_l"] # lens.stored["z_l"]
    /\ Len(ret.env.received) = 2
    /\ ret.env.received[1].z[1] = call.params.vals["z_l"]

\* the lens of the last call has a potential and a deflection that are
\* identically zero: a shear whose resolved components are both zero, so
\* that both primitives return zeros on the grid
ZeroLens ==
    LET a == self_reduced_deflection_angle(CallEnv, coords.x, coords.y, coords.z_s)
        pot == self_potential(CallEnv, coords.x, coords.y, coords.z_s)
    IN  /\ lens.cls = "ExternalShear"
        /\ unpack(lens, call.params)[4] = RI(0)
        /\ unpack(lens, call.params)[5] = RI(0)
        /\ a.outcome = "ok" /\ a.kind = "pair"
        /\ a.value = <<zeros_like(coords.x), zeros_like(coords.y)>>
        /\ pot.outcome = "ok" /\ pot.kind = "tensor"
        /\ pot.value = <<zeros_like(coords.x)>>

OtherMethod == IF call.method = "autograd" THEN "fft" ELSE "autograd"

\* C13: jacobian_reduced_deflection_angle returns the same matrix field
\* whichever method is selected; in particular, for a lens whose potential
\* and deflection are identically zero, the "autograd" and the "fft" result
\* for the same lens, grid, override and pixelscale hold the same matrix at
\* every grid point both results cover.
C13_JacobianMethodsAgreeOnZeroLens ==
    (/\ call.op = "ThinLens.jacobian_reduced_deflection_angle"
     /\ call.method \in {"autograd", "fft"}
     /\ ~call.pixelscale.is_none
     /\ ret.outcome = "ok"
     /\ ZeroLens)
    => LET other == ThinLens_jacobian_reduced_deflection_angle(
                        CallEnv, coords.x, coords.y, coords.z_s,
                        OtherMethod, call.pixelscale)
       IN  /\ other.outcome = "ok"
           /\ \A i \in DOMAIN ret.value[1] \cap DOMAIN other.value[1] :
                  ret.value[1][i] = other.value[1][i]

====
